---- MODULE Spec2Model ----
(***************************************************************************)
(* Model of the collaborative drawing canvas:                              *)
(*   - DrawingState          (src/server/drawing-state.js, lines 1-47)     *)
(*   - CollaborativeCanvasServer (src/server/drawing-state.js, 53-298)     *)
(*   - WebSocketClient       (src/client/main.js, lines 495-622)           *)
(*   - CollaborativeDrawingApp (src/client/main.js, lines 279-427)         *)
(* Each component has its own specification over its own variables:        *)
(* SpecState, SpecServer, SpecRouting, SpecLog, SpecHistory, SpecTransport *)
(* and, for the application, SpecClient, SpecLocal and SpecRedo. The       *)
(* application on its transport is SpecSession, the server with pinging    *)
(* clients is SpecProbe.                                                   *)
(***************************************************************************)
EXTENDS Integers, Sequences, FiniteSets, TLC

(***************************************************************************)
(* Bounds of the model.                                                    *)
(***************************************************************************)
\* number of addOperation calls explored on one DrawingState
MaxAdds == 3
\* number of distinct author identities
MaxUsers == 2
\* number of distinct operationId values a caller may supply
MaxOpIds == 2

Users == 1..MaxUsers
OpIds == 1..MaxOpIds
\* JavaScript's null: a value different from every operation record
null == [isNull |-> TRUE]

(***************************************************************************)
(* DrawingState                                                            *)
(***************************************************************************)
VARIABLES
    operations,   \* DrawingState.operations : sequence of operation records
    undoStack,    \* DrawingState.undoStack
    redoStack,    \* DrawingState.redoStack
    version,      \* DrawingState.version
    call,         \* observation: the last call, its argument and its result
    assigned,     \* observation: every version addOperation has handed out
    removed       \* observation: every operation undo has removed

stateVars == <<operations, undoStack, redoStack, version, call, assigned, removed>>

\* Array.prototype.filter with the predicate op.version > v, evaluated
\* front to back, pushing every accepted element onto the result.
RECURSIVE filterFrom(_, _, _, _)
filterFrom(ops, v, i, acc) ==
    IF i > Len(ops) THEN acc
    ELSE filterFrom(ops, v, i + 1,
                    IF ops[i].version > v THEN Append(acc, ops[i]) ELSE acc)

filter_ge(ops, v) == SelectSeq(ops, LAMBDA op : op.version >= v)

filter(ops, v) == filterFrom(ops, v, 1, <<>>)

\* a variant that walks the log front to back
scanFront(ops, userId, n) ==
    IF \E k \in 1..n : ops[k].userId = userId
    THEN CHOOSE k \in 1..n : /\ ops[k].userId = userId
                             /\ \A m \in 1..(k - 1) : ops[m].userId # userId
    ELSE 0

\* the loop of undo: for (i = length - 1; i >= 0; i--) if (userId matches)
\* returns the 1-based index found, 0 when the loop runs out
RECURSIVE scanBack(_, _, _)
scanBack(ops, userId, i) ==
    IF i < 1 THEN 0
    ELSE IF ops[i].userId = userId THEN i
    ELSE scanBack(ops, userId, i - 1)

\* Array.prototype.splice(i, 1)
splice_tail(ops, i) == SubSeq(ops, 1, i - 1)

splice(ops, i) == SubSeq(ops, 1, i - 1) \o SubSeq(ops, i + 1, Len(ops))

\* a variant that pops the newest entry of the stack
filterOut_pop(stack, operationId) == SubSeq(stack, 1, Len(stack) - 1)

\* undoStack.filter(op => op.operationId !== operation.operationId)
filterOut(stack, operationId) ==
    SelectSeq(stack, LAMBDA op : op.operationId # operationId)

InitState ==
    /\ operations = <<>>
    /\ undoStack = <<>>
    /\ redoStack = <<>>
    /\ version = 0
    /\ call = [op |-> "new", arg |-> null, ret |-> null]
    /\ assigned = {}
    /\ removed = {}

\* addOperation(operation): every call passes a newly built operation
\* object carrying an operationId and a userId.
addOperation_reuse(operationId, userId) ==
    /\ version < MaxAdds
    /\ LET operation == [operationId |-> operationId, userId |-> userId,
                         version |-> Len(operations) + 1]
       IN /\ version' = Len(operations) + 1
          /\ operations' = Append(operations, operation)
          /\ undoStack' = Append(undoStack, operation)
          /\ redoStack' = <<>>
          /\ call' = [op |-> "addOperation", arg |-> operationId, ret |-> operation]
          /\ assigned' = assigned \cup {operation.version}
          /\ UNCHANGED removed

addOperation(operationId, userId) ==
    /\ version < MaxAdds
    /\ LET operation == [operationId |-> operationId, userId |-> userId,
                         version |-> version + 1]
       IN /\ version' = version + 1
          /\ operations' = Append(operations, operation)
          /\ undoStack' = Append(undoStack, operation)
          /\ redoStack' = <<>>
          /\ call' = [op |-> "addOperation", arg |-> operationId, ret |-> operation]
          /\ assigned' = assigned \cup {operation.version}
          /\ UNCHANGED removed

getOperationsAfter(v) ==
    /\ call' = [op |-> "getOperationsAfter", arg |-> v, ret |-> filter(operations, v)]
    /\ UNCHANGED <<operations, undoStack, redoStack, version, assigned, removed>>

\* a variant that pops undoStack before it looks for the author's entry
undo_pop(userId) ==
    LET i == scanBack(operations, userId, Len(operations))
    IN IF i > 0
       THEN /\ operations' = splice(operations, i)
            /\ undoStack' = filterOut(undoStack, operations[i].operationId)
            /\ call' = [op |-> "undo", arg |-> userId, ret |-> operations[i]]
            /\ removed' = removed \cup {operations[i]}
            /\ UNCHANGED <<redoStack, version, assigned>>
       ELSE /\ call' = [op |-> "undo", arg |-> userId, ret |-> null]
            /\ undoStack' = SubSeq(undoStack, 1, Len(undoStack) - 1)
            /\ UNCHANGED <<operations, redoStack, version, assigned, removed>>

\* a variant that hands the removed entry's version back to the counter
undo_rewind(userId) ==
    LET i == scanBack(operations, userId, Len(operations))
    IN IF i > 0
       THEN /\ operations' = splice(operations, i)
            /\ undoStack' = filterOut(undoStack, operations[i].operationId)
            /\ call' = [op |-> "undo", arg |-> userId, ret |-> operations[i]]
            /\ removed' = removed \cup {operations[i]}
            /\ version' = version - 1
            /\ UNCHANGED <<redoStack, assigned>>
       ELSE /\ call' = [op |-> "undo", arg |-> userId, ret |-> null]
            /\ UNCHANGED <<operations, undoStack, redoStack, version, assigned, removed>>

undo(userId) ==
    LET i == scanBack(operations, userId, Len(operations))
    IN IF i > 0
       THEN /\ operations' = splice(operations, i)
            /\ undoStack' = filterOut(undoStack, operations[i].operationId)
            /\ call' = [op |-> "undo", arg |-> userId, ret |-> operations[i]]
            /\ removed' = removed \cup {operations[i]}
            /\ UNCHANGED <<redoStack, version, assigned>>
       ELSE /\ call' = [op |-> "undo", arg |-> userId, ret |-> null]
            /\ UNCHANGED <<operations, undoStack, redoStack, version, assigned, removed>>

redo(userId) ==
    /\ call' = [op |-> "redo", arg |-> userId, ret |-> null]
    /\ UNCHANGED <<operations, undoStack, redoStack, version, assigned, removed>>

getState ==
    /\ call' = [op |-> "getState", arg |-> null,
                ret |-> [operations |-> operations, version |-> version]]
    /\ UNCHANGED <<operations, undoStack, redoStack, version, assigned, removed>>

\* the versions a caller asks about
QueryVersions == 0..MaxAdds

(***************************************************************************)
(* Claims about DrawingState                                               *)
(***************************************************************************)
Range(s) == {s[i] : i \in 1..Len(s)}

After(ops, v) == {i \in 1..Len(ops) : ops[i].version > v}

\* ret lists exactly the entries of ops at the positions After(ops, v),
\* in increasing position
IsEntriesAfter(ret, ops, v) ==
    /\ Len(ret) = Cardinality(After(ops, v))
    /\ \A j \in 1..Len(ret) :
          \E i \in After(ops, v) :
              /\ Cardinality({x \in After(ops, v) : x < i}) = j - 1
              /\ ret[j] = ops[i]

\* C2: getOperationsAfter(v) returns exactly the entries whose version is
\* strictly greater than v, in log order, and leaves the log and the
\* version counter unchanged.
C2_GetOperationsAfterExact ==
    [][call'.op = "getOperationsAfter" =>
          /\ operations' = operations
          /\ version' = version
          /\ IsEntriesAfter(call'.ret, operations, call'.arg)]_stateVars

\* a query that returned a proper, non-empty part of a log with a gap
C2_Witness ==
    /\ call.op = "getOperationsAfter"
    /\ Len(call.ret) >= 1
    /\ Len(call.ret) < Len(operations)
    /\ removed # {}
    /\ call.ret[1].version > call.arg + 1

\* C3: every addOperation assigns a version strictly greater than every
\* version assigned before it, also those of operations undo has removed.
C3_VersionNeverReused ==
    [][Len(operations') > Len(operations) =>
          \A w \in assigned : operations'[Len(operations')].version > w]_stateVars

\* an operation was added right after the newest version had been removed
C3_Witness ==
    /\ call.op = "addOperation"
    /\ \E r \in removed : r.version = call.ret.version - 1

\* C4: once undo has removed o, getOperationsAfter(0) never lists o again,
\* and the undo leaves every other entry, its version and the relative
\* order of the entries as they were.
C4_UndoFrame ==
    /\ [](\A r \in removed : r \notin Range(filter(operations, 0)))
    /\ [][(call'.op = "undo" /\ call'.ret # null) =>
            \E k \in 1..Len(operations) :
                /\ operations[k] = call'.ret
                /\ Len(operations') = Len(operations) - 1
                /\ \A j \in 1..Len(operations') :
                      operations'[j] = operations[IF j < k THEN j ELSE j + 1]]_stateVars

\* an undo removed an entry that had entries before and after it
C4_Witness ==
    /\ call.op = "undo"
    /\ call.ret # null
    /\ \E i, j \in 1..Len(operations) :
          /\ operations[i].version < call.ret.version
          /\ operations[j].version > call.ret.version

\* C5: undo(u) on a log without an entry authored by u returns null and
\* leaves the version counter, the operations array and the undo stack
\* unchanged.
C5_UndoNotFound ==
    [][(/\ call'.op = "undo"
        /\ \A i \in 1..Len(operations) : operations[i].userId # call'.arg) =>
          /\ call'.ret = null
          /\ version' = version
          /\ operations' = operations
          /\ undoStack' = undoStack]_stateVars

\* an undo found nothing in a log that holds other authors' entries
C5_Witness ==
    /\ call.op = "undo"
    /\ call.ret = null
    /\ Len(operations) >= 2
    /\ Len(undoStack) >= 2

\* C6: undo(u) on a log with an entry authored by u removes and returns
\* the entry of u with the highest version, and removes nothing else.
C6_UndoRemovesLatestOwn ==
    [][(/\ call'.op = "undo"
        /\ \E i \in 1..Len(operations) : operations[i].userId = call'.arg) =>
          /\ call'.ret # null
          /\ call'.ret \in Range(operations)
          /\ call'.ret.userId = call'.arg
          /\ \A i \in 1..Len(operations) :
                operations[i].userId = call'.arg =>
                    operations[i].version <= call'.ret.version
          /\ Len(operations') = Len(operations) - 1
          /\ Range(operations') = Range(operations) \ {call'.ret}]_stateVars

\* an undo removed one of several entries of its author, below a newer
\* entry of another author
C6_Witness ==
    /\ call.op = "undo"
    /\ call.ret # null
    /\ \E i, j \in 1..Len(operations) :
          /\ operations[i].userId = call.ret.userId
          /\ operations[i].version < call.ret.version
          /\ operations[j].userId # call.ret.userId
          /\ operations[j].version > call.ret.version

\* every operation addOperation was ever given: those still in the log and
\* those undo has removed
Added == Range(operations) \cup removed

\* no two operations given to addOperation share an operationId
DistinctIds == \A a, b \in Added : a.operationId = b.operationId => a = b

\* C39: as long as the operations given to addOperation have pairwise
\* distinct operationIds, undoStack holds the same operations in the same
\* order as the operations array, after any sequence of addOperation and
\* undo calls.
C39_UndoStackMirrorsLog ==
    DistinctIds => undoStack = operations

\* an undo removed an entry below a newer entry with another id, which
\* is still on the stack
C39_Witness ==
    /\ DistinctIds
    /\ call.op = "undo"
    /\ call.ret # null
    /\ \E j \in 1..Len(undoStack) : undoStack[j].version > call.ret.version

(***************************************************************************)
(* CollaborativeCanvasServer                                               *)
(***************************************************************************)
\* number of connections the server accepts
MaxConns == 3
\* number of inbound messages the server handles
MaxMessages == 3
\* number of inbound messages handled in the runs that explore the
\* registry with MaxConns connections
MaxRegistryMessages == 1
\* number of connections in the runs that explore the operation log
MaxAuthors == 2
\* length of the longest log a new participant finds at its handshake
MaxLogged == 102
\* number of runs of the cleanup interval
MaxTicks == 3

\* the period of the cleanup interval and the liveness timeout, in ms
SweepInterval == 30000
PingTimeout == 60000
\* operations.slice(-100)
HistoryLimit == 100
\* the default of broadcast's excludeUserId: no user id equals it
noUser == 0

\* generateRandomColor() picks one of eleven colours; no handler branches
\* on the colour
Colors == {"#FF6B6B"}
Origin == [x |-> 0, y |-> 0]
Positions == {Origin, [x |-> 5, y |-> 7]}
\* JavaScript's undefined: a value different from every payload
undefined == [isUndefined |-> TRUE]
\* the data a client puts into a draw message; it may name an author itself
DrawData == {[points |-> <<Origin, [x |-> 5, y |-> 7]>>, userId |-> 2]}
\* Date.now() of the client when its ping interval ran
PingSentAt == 7
\* what JSON.parse yields for the frames a client sends; "garbage" stands
\* for a frame JSON.parse throws on
Frames ==
    {[type |-> "draw", data |-> d] : d \in DrawData \cup {undefined}}
    \cup {[type |-> "cursor", data |-> pos] : pos \in Positions \ {Origin}}
    \cup {[type |-> t, data |-> undefined] : t \in {"clear", "undo", "garbage"}}
    \cup {[type |-> "ping", data |-> undefined, timestamp |-> PingSentAt]}

\* the frames the client application and its transport send
LogFrames == {f \in Frames : f.type # "garbage" /\ (f.type = "draw" => f.data # undefined)}

VARIABLES
    clients,        \* this.clients: the Map's entries in insertion order
    readyState,     \* readyState of the socket of each connection ever accepted
    sent,           \* per socket, the frames the last handler passed to ws.send
    leftNotices,    \* observation: per pair <<p, q>>, the user-left frames about p sent to q
    srvOperations,  \* this.operations of the server: the global operation log
    now,            \* Date.now()
    sweepDue,       \* the cleanup interval has elapsed and its callback is pending
    handled,        \* number of inbound messages handled so far
    bcast,          \* observation: the broadcast calls made by the last handler
    inbound,        \* observation: the sender and the frame the last handler received
    sendOrder,      \* observation: the ws.send calls of the last connection handler, in order
    swept           \* observation: who the cleanup evicted, and who was told then

serverVars == <<clients, readyState, sent, leftNotices, srvOperations, now,
                sweepDue, handled, bcast, inbound, sendOrder, swept>>

Registered(cl) == {cl[i].userId : i \in 1..Len(cl)}

\* this.clients.delete(userId): a no-op when the id is not a key
delete_keep(cl, userId) == cl

delete(cl, userId) == SelectSeq(cl, LAMBDA c : c.userId # userId)

\* the condition under which broadcast sends to one entry of the registry
shouldSend_ignoreState(userId, rs, excludeUserId) ==
    userId # excludeUserId

shouldSend_noExclude(userId, rs, excludeUserId) ==
    rs[userId] = "OPEN"

shouldSend(userId, rs, excludeUserId) ==
    userId # excludeUserId /\ rs[userId] = "OPEN"

\* broadcast(message, excludeUserId): the loop over this.clients.entries()
RECURSIVE broadcastFrom(_, _, _, _, _, _)
broadcastFrom(cl, rs, ob, message, excludeUserId, i) ==
    IF i > Len(cl) THEN ob
    ELSE broadcastFrom(cl, rs,
            IF shouldSend(cl[i].userId, rs, excludeUserId)
            THEN [ob EXCEPT ![cl[i].userId] = Append(@, message)]
            ELSE ob,
            message, excludeUserId, i + 1)

broadcast(cl, rs, ob, message, excludeUserId) ==
    broadcastFrom(cl, rs, ob, message, excludeUserId, 1)

\* Array.prototype.slice(-n)
slice_first(ops, n) ==
    IF Len(ops) <= n THEN ops ELSE SubSeq(ops, 1, n)

slice(ops, n) ==
    IF Len(ops) <= n THEN ops ELSE SubSeq(ops, Len(ops) - n + 1, Len(ops))

\* generateOperationId(): a time stamp and a random suffix, taken to be
\* different from every id generated before; the log only ever grows
generateOperationId(ops) == Len(ops) + 1

Call(message, excludeUserId) == [message |-> message, exclude |-> excludeUserId]

\* nothing sent yet on any of the sockets rs
NoneSent(rs) == [u \in 1..Len(rs) |-> <<>>]

Occurrences(frames, frame) == Cardinality({i \in 1..Len(frames) : frames[i] = frame})

\* the tally of user-left frames after the frames out were sent
Tally(tally, out) ==
    [pq \in DOMAIN tally |->
        IF pq[2] \in DOMAIN out
        THEN tally[pq] + Occurrences(out[pq[2]], [type |-> "user-left", userId |-> pq[1]])
        ELSE tally[pq]]

\* the entries of the registry broadcast sends to, in the order of the loop
recipients(cl, rs, excludeUserId) ==
    LET to == SelectSeq(cl, LAMBDA c : shouldSend(c.userId, rs, excludeUserId))
    IN [i \in 1..Len(to) |-> to[i].userId]

InitServer ==
    /\ clients = <<>>
    /\ readyState = <<>>
    /\ sent = <<>>
    /\ leftNotices = [pq \in (1..MaxConns) \X (1..MaxConns) |-> 0]
    /\ srvOperations = <<>>
    /\ now = 0
    /\ sweepDue = FALSE
    /\ handled = 0
    /\ bcast = <<>>
    /\ inbound = <<>>
    /\ sendOrder = <<>>
    /\ swept = {}

\* the server after participant 1 connected and sent n draw messages,
\* for every n up to MaxLogged
InitLogged ==
    \E n \in 0..MaxLogged :
        /\ clients = <<[userId |-> 1, color |-> CHOOSE c \in Colors : TRUE,
                        cursor |-> Origin, lastPing |-> 0]>>
        /\ readyState = <<"OPEN">>
        /\ sent = <<<<>>>>
        /\ leftNotices = [pq \in (1..MaxConns) \X (1..MaxConns) |-> 0]
        /\ srvOperations = [i \in 1..n |->
                               [type |-> "draw",
                                targetOperationId |-> 0,
                                userId |-> 1,
                                timestamp |-> 0,
                                operationId |-> i,
                                data |-> CHOOSE d \in DrawData : TRUE]]
        /\ now = 0
        /\ sweepDue = FALSE
        /\ handled = n
        /\ bcast = <<>>
        /\ inbound = <<>>
        /\ sendOrder = <<>>
        /\ swept = {}

\* wss.on('connection'): generateUserId() yields an id no connection had
Connection(userColor) ==
    /\ Len(readyState) < MaxConns
    /\ LET userId == Len(readyState) + 1
           cl == Append(clients, [userId |-> userId, color |-> userColor,
                                  cursor |-> Origin, lastPing |-> now])
           rs == Append(readyState, "OPEN")
           welcome == [type |-> "welcome", userId |-> userId, color |-> userColor,
                       users |-> [i \in 1..Len(cl) |->
                                     [id |-> cl[i].userId, color |-> cl[i].color,
                                      cursor |-> cl[i].cursor]]]
           joined == [type |-> "user-joined", userId |-> userId, color |-> userColor]
           ob1 == [NoneSent(rs) EXCEPT ![userId] = <<welcome>>]
           ob2 == broadcast(cl, rs, ob1, joined, userId)
           ob3 == IF Len(srvOperations) > 0
                  THEN [ob2 EXCEPT ![userId] =
                          Append(@, [type |-> "history",
                                     operations |-> slice(srvOperations, HistoryLimit)])]
                  ELSE ob2
       IN /\ clients' = cl
          /\ readyState' = rs
          /\ sent' = ob3
          /\ leftNotices' = Tally(leftNotices, ob3)
          /\ bcast' = <<Call(joined, userId)>>
          /\ inbound' = <<>>
          /\ sendOrder' =
                <<[to |-> userId, type |-> "welcome"]>>
                \o [i \in 1..Len(recipients(cl, rs, userId)) |->
                       [to |-> recipients(cl, rs, userId)[i], type |-> "user-joined"]]
                \o (IF Len(srvOperations) > 0
                    THEN <<[to |-> userId, type |-> "history"]>>
                    ELSE <<>>)
          /\ UNCHANGED <<srvOperations, now, sweepDue, handled, swept>>

\* the peer closes or the network drops: the socket leaves OPEN, its
\* 'close' event is still to be emitted
SocketClosing(userId) ==
    /\ userId \in 1..Len(readyState)
    /\ readyState[userId] = "OPEN"
    /\ readyState' = [readyState EXCEPT ![userId] = "CLOSING"]
    /\ bcast' = <<>>
    /\ inbound' = <<>>
    /\ sendOrder' = <<>>
    /\ sent' = NoneSent(readyState)
    /\ UNCHANGED <<clients, leftNotices, srvOperations, now, sweepDue, handled, swept>>

\* ws.on('close'), emitted once per socket after it left OPEN
OnClose(userId) ==
    /\ userId \in 1..Len(readyState)
    /\ readyState[userId] = "CLOSING"
    /\ LET rs == [readyState EXCEPT ![userId] = "CLOSED"]
           cl == delete(clients, userId)
           left == [type |-> "user-left", userId |-> userId]
       IN /\ readyState' = rs
          /\ clients' = cl
          /\ sent' = broadcast(cl, rs, NoneSent(rs), left, noUser)
          /\ leftNotices' = Tally(leftNotices, sent')
          /\ bcast' = <<Call(left, noUser)>>
          /\ inbound' = <<>>
          /\ sendOrder' = <<>>
    /\ UNCHANGED <<srvOperations, now, sweepDue, handled, swept>>

\* ws.on('pong')
OnPong(userId) ==
    /\ userId \in 1..Len(readyState)
    /\ readyState[userId] = "OPEN"
    /\ clients' = [i \in 1..Len(clients) |->
                     IF clients[i].userId = userId
                     THEN [clients[i] EXCEPT !.lastPing = now]
                     ELSE clients[i]]
    /\ bcast' = <<>>
    /\ inbound' = <<>>
    /\ sendOrder' = <<>>
    /\ sent' = NoneSent(readyState)
    /\ UNCHANGED <<readyState, leftNotices, srvOperations, now, sweepDue, handled, swept>>

\* time passes until the cleanup interval is due again
Tick ==
    /\ ~sweepDue
    /\ now < MaxTicks * SweepInterval
    /\ now' = now + SweepInterval
    /\ sweepDue' = TRUE
    /\ bcast' = <<>>
    /\ inbound' = <<>>
    /\ sendOrder' = <<>>
    /\ sent' = NoneSent(readyState)
    /\ UNCHANGED <<clients, readyState, leftNotices, srvOperations, handled, swept>>

\* ws.terminate(): a socket that is not yet closed is destroyed
terminate(state) == IF state = "CLOSED" THEN "CLOSED" ELSE "CLOSING"

\* the body of the cleanup loop for the entries from position i on;
\* st carries the registry, the sockets and what was sent so far
RECURSIVE sweepFrom(_, _, _)
sweepFrom(entries, i, st) ==
    IF i > Len(entries) THEN st
    ELSE LET client == entries[i] IN
         IF now - client.lastPing > PingTimeout
         THEN LET rs == [st.readyState EXCEPT ![client.userId] = terminate(@)]
                  cl == delete(st.clients, client.userId)
                  left == [type |-> "user-left", userId |-> client.userId]
              IN sweepFrom(entries, i + 1,
                   [clients |-> cl,
                    readyState |-> rs,
                    sent |-> broadcast(cl, rs, st.sent, left, noUser),
                    bcast |-> Append(st.bcast, Call(left, noUser)),
                    swept |-> st.swept \cup
                        {[userId |-> client.userId,
                          told |-> {u \in Registered(cl) : rs[u] = "OPEN"}]}])
         ELSE sweepFrom(entries, i + 1, st)

\* the setInterval callback that cleans up inactive clients
Sweep ==
    /\ sweepDue
    /\ LET st == sweepFrom(clients, 1,
                   [clients |-> clients, readyState |-> readyState,
                    sent |-> NoneSent(readyState), bcast |-> <<>>,
                    swept |-> swept])
       IN /\ clients' = st.clients
          /\ readyState' = st.readyState
          /\ sent' = st.sent
          /\ leftNotices' = Tally(leftNotices, st.sent)
          /\ swept' = st.swept
          /\ bcast' = st.bcast
          /\ inbound' = <<>>
          /\ sendOrder' = <<>>
    /\ sweepDue' = FALSE
    /\ UNCHANGED <<srvOperations, now, handled>>

\* this.clients.get(userId), as the test if (!client) reads it
get_anyone(cl, userId) == TRUE

get(cl, userId) == userId \in Registered(cl)

\* client.cursor = message.data, for the client registered as userId
updateCursor_all(cl, userId, position) ==
    [i \in 1..Len(cl) |-> [cl[i] EXCEPT !.cursor = position]]

updateCursor(cl, userId, position) ==
    [i \in 1..Len(cl) |->
        IF cl[i].userId = userId THEN [cl[i] EXCEPT !.cursor = position] ELSE cl[i]]

\* this.operations.push(operation)
push_front(ops, operation) == <<operation>> \o ops

push(ops, operation) == Append(ops, operation)

\* the userId property of { ...message.data, userId, ... }: the property
\* written after the spread replaces one the payload brought along
author_payload(data, userId) ==
    IF "userId" \in DOMAIN data THEN data.userId ELSE userId

author(data, userId) == userId

\* whom handleUndo leaves out of its broadcast: it passes no excludeUserId
undoExcluded_sender(userId) == userId

undoExcluded(userId) == noUser

\* handleUndo(userId): the backward scan for the user's last log entry
lastBy_any(ops, userId, i) == i

RECURSIVE lastBy(_, _, _)
lastBy(ops, userId, i) ==
    IF i < 1 THEN 0
    ELSE IF ops[i].userId = userId THEN i
    ELSE lastBy(ops, userId, i - 1)

\* handleUndo(userId)
handleUndo(userId) ==
    LET i == lastBy(srvOperations, userId, Len(srvOperations))
    IN IF i > 0
       THEN LET undoOp == [type |-> "undo",
                           targetOperationId |-> srvOperations[i].operationId,
                           userId |-> userId,
                           timestamp |-> now,
                           operationId |-> generateOperationId(srvOperations),
                           data |-> undefined]
                msg == [type |-> "undo", data |-> undoOp]
            IN /\ srvOperations' = push(srvOperations, undoOp)
               /\ sent' = broadcast(clients, readyState, NoneSent(readyState), msg,
                                     undoExcluded(userId))
               /\ bcast' = <<Call(msg, undoExcluded(userId))>>
               /\ UNCHANGED clients
       ELSE /\ bcast' = <<>>
            /\ sent' = NoneSent(readyState)
            /\ UNCHANGED <<clients, srvOperations>>

\* handleMessage(userId, message).  A log entry keeps the client's data
\* in the field data; the fields the server writes after the spread
\* (userId, timestamp, operationId) are the entry's own fields.
handleMessage(userId, message) ==
    IF ~get(clients, userId)
    THEN /\ bcast' = <<>>
         /\ sent' = NoneSent(readyState)
         /\ UNCHANGED <<clients, srvOperations>>
    ELSE CASE message.type = "draw" ->
                LET operation == [type |-> "draw",
                                  targetOperationId |-> 0,
                                  userId |-> author(message.data, userId),
                                  timestamp |-> now,
                                  operationId |-> generateOperationId(srvOperations),
                                  data |-> message.data]
                    msg == [type |-> "draw", data |-> operation]
                IN /\ srvOperations' = push(srvOperations, operation)
                   /\ sent' = broadcast(clients, readyState, NoneSent(readyState), msg, userId)
                   /\ bcast' = <<Call(msg, userId)>>
                   /\ UNCHANGED clients
           [] message.type = "cursor" ->
                LET msg == [type |-> "cursor", userId |-> userId, data |-> message.data]
                IN /\ clients' = updateCursor(clients, userId, message.data)
                   /\ sent' = broadcast(clients, readyState, NoneSent(readyState), msg, userId)
                   /\ bcast' = <<Call(msg, userId)>>
                   /\ UNCHANGED srvOperations
           [] message.type = "clear" ->
                LET clearOp == [type |-> "clear",
                                targetOperationId |-> 0,
                                userId |-> userId,
                                timestamp |-> now,
                                operationId |-> generateOperationId(srvOperations),
                                data |-> undefined]
                    msg == [type |-> "clear", data |-> clearOp]
                IN /\ srvOperations' = push(srvOperations, clearOp)
                   /\ sent' = broadcast(clients, readyState, NoneSent(readyState), msg, userId)
                   /\ bcast' = <<Call(msg, userId)>>
                   /\ UNCHANGED clients
           [] message.type = "undo" -> handleUndo(userId)
           [] OTHER ->
                /\ bcast' = <<>>
                /\ sent' = NoneSent(readyState)
                /\ UNCHANGED <<clients, srvOperations>>

\* ws.on('message'): JSON.parse, then handleMessage; a frame that does not
\* parse is logged and dropped
OnMessage(userId, frame) ==
    /\ userId \in 1..Len(readyState)
    /\ readyState[userId] # "CLOSED"
    /\ handled < MaxMessages
    /\ handled' = handled + 1
    /\ inbound' = <<[userId |-> userId, frame |-> frame]>>
    /\ sendOrder' = <<>>
    /\ IF frame.type = "garbage"
       THEN /\ bcast' = <<>>
            /\ sent' = NoneSent(readyState)
            /\ UNCHANGED <<clients, srvOperations>>
       ELSE handleMessage(userId, frame)
    /\ UNCHANGED <<readyState, leftNotices, now, sweepDue, swept>>

UserIds == 1..MaxConns

(***************************************************************************)
(* Claims about the server                                                 *)
(***************************************************************************)
\* C7: broadcast(m, X) sends m exactly once to every registered client
\* other than X whose socket is open, never to X, and sends nothing to a
\* registered client whose socket is not open, which stays registered.
\* Checked on every handler run that calls broadcast once.
C7_BroadcastRouting ==
    [][Len(bcast') = 1 =>
         LET m == bcast'[1].message
             X == bcast'[1].exclude
         IN /\ \A q \in 1..Len(readyState') :
                 Occurrences(sent'[q], m) =
                     IF /\ q \in Registered(clients')
                        /\ q # X
                        /\ readyState'[q] = "OPEN"
                     THEN 1 ELSE 0
            /\ \A q \in Registered(clients) :
                 (readyState'[q] # "OPEN" /\ ~(m.type = "user-left" /\ m.userId = q))
                     => q \in Registered(clients')]_serverVars

\* one broadcast reached an open client, left out its open sender and
\* skipped a registered client whose socket was no longer open
C7_Witness ==
    /\ Len(bcast) = 1
    /\ bcast[1].exclude \in Registered(clients)
    /\ readyState[bcast[1].exclude] = "OPEN"
    /\ sent[bcast[1].exclude] = <<>>
    /\ \E q, r \in Registered(clients) :
          /\ q # bcast[1].exclude
          /\ readyState[q] = "OPEN"
          /\ sent[q] = <<bcast[1].message>>
          /\ readyState[r] # "OPEN"
          /\ sent[r] = <<>>

\* C8: a participant the liveness sweep evicts is removed from the
\* registry, and each participant told of it then has received exactly one
\* user-left notification about it, the close event of the terminated
\* socket included.
C8_SweptNotifiedOnce ==
    \A s \in swept :
        /\ s.userId \notin Registered(clients)
        /\ \A q \in s.told : leftNotices[<<s.userId, q>>] = 1

\* the message the last handler run received, from a registered sender
Handled(type) ==
    /\ Len(inbound) = 1
    /\ inbound[1].frame.type = type
    /\ inbound[1].userId \in Registered(clients)

\* the last entry of the server's log
lastOperation(ops) == ops[Len(ops)]

\* C14: the operation appended for a draw message carries as author the
\* identity of the connection the message arrived on, whatever userId the
\* payload holds.
C14_AuthorFromConnection ==
    [][Handled("draw")' =>
         /\ Len(srvOperations') = Len(srvOperations) + 1
         /\ lastOperation(srvOperations').userId = inbound'[1].userId]_serverVars

\* a draw message whose payload names another author was handled
C14_Witness ==
    /\ Handled("draw")
    /\ inbound[1].frame.data # undefined
    /\ inbound[1].frame.data.userId # inbound[1].userId
    /\ lastOperation(srvOperations).data = inbound[1].frame.data
    /\ lastOperation(srvOperations).userId = inbound[1].userId

\* C15: for a draw message the server appends exactly one operation, the
\* operation has a version, and the operation with that version is sent
\* once to every other open connection and not to the sender.
C15_DrawVersioned ==
    [][Handled("draw")' =>
         LET op == lastOperation(srvOperations')
             u == inbound'[1].userId
         IN /\ Len(srvOperations') = Len(srvOperations) + 1
            /\ "version" \in DOMAIN op
            /\ \A q \in 1..Len(readyState') :
                 Occurrences(sent'[q], [type |-> "draw", data |-> op]) =
                     IF q \in Registered(clients') /\ q # u /\ readyState'[q] = "OPEN"
                     THEN 1 ELSE 0]_serverVars

\* the positions in the log of the entries authored by u
EntriesBy(ops, u) == {i \in 1..Len(ops) : ops[i].userId = u}

\* the number of frames in frames that are undo notifications for the id
Removals(frames, id) ==
    Cardinality({k \in 1..Len(frames) :
                    /\ frames[k].type = "undo"
                    /\ frames[k].data.targetOperationId = id})

\* C16: when an undo message of u is handled and the log holds an entry
\* authored by u, a notification carrying the id of u's most recent entry
\* is sent exactly once to every open connection, u's own included.
C16_UndoNotifiesAll ==
    [][(Handled("undo")' /\ EntriesBy(srvOperations, inbound'[1].userId) # {}) =>
         LET mine == EntriesBy(srvOperations, inbound'[1].userId)
             i == CHOOSE m \in mine : \A n \in mine : n <= m
         IN \A q \in 1..Len(readyState') :
              Removals(sent'[q], srvOperations[i].operationId) =
                  IF q \in Registered(clients') /\ readyState'[q] = "OPEN"
                  THEN 1 ELSE 0]_serverVars

\* an undo was handled and its notification went to the open sender and
\* to another open connection
C16_Witness ==
    /\ Handled("undo")
    /\ readyState[inbound[1].userId] = "OPEN"
    /\ Len(sent[inbound[1].userId]) = 1
    /\ sent[inbound[1].userId][1].type = "undo"
    /\ \E q \in Registered(clients) :
          /\ q # inbound[1].userId
          /\ sent[q] = sent[inbound[1].userId]

\* the entries of the log that record an undo
Markers(ops) == {i \in 1..Len(ops) : ops[i].type = "undo"}

\* C17: the target of a handled undo is no longer in the log, and no
\* history payload contains it.
C17_UndoneGone ==
    \A i \in Markers(srvOperations) :
        /\ \A j \in 1..Len(srvOperations) :
             srvOperations[j].operationId # srvOperations[i].targetOperationId
        /\ \A q \in 1..Len(sent) : \A k \in 1..Len(sent[q]) :
             sent[q][k].type = "history" =>
                \A j \in 1..Len(sent[q][k].operations) :
                    sent[q][k].operations[j].operationId
                        # srvOperations[i].targetOperationId

\* C18: an undo message of a participant who authored no entry of the log
\* leaves the log and the registry unchanged and sends nothing to anyone.
C18_UndoNothingToUndo ==
    [][(Handled("undo")' /\ EntriesBy(srvOperations, inbound'[1].userId) = {}) =>
         /\ srvOperations' = srvOperations
         /\ clients' = clients
         /\ \A q \in 1..Len(sent') : sent'[q] = <<>>]_serverVars

\* participant 1 sent undo while the log held two strokes, both by
\* participant 2
C18_Witness ==
    /\ Handled("undo")
    /\ inbound[1].userId = 1
    /\ Len(srvOperations) = 2
    /\ \A i \in 1..2 : srvOperations[i].userId = 2 /\ srvOperations[i].type = "draw"
    /\ bcast = <<>>
    /\ readyState[2] = "OPEN"

\* C19: the target of every undo is a stroke or clear entry of the log
\* that no other undo targets.
C19_UndoTargetsStrokes ==
    \A i \in Markers(srvOperations) :
        /\ \E j \in 1..Len(srvOperations) :
             /\ srvOperations[j].operationId = srvOperations[i].targetOperationId
             /\ srvOperations[j].type \in {"draw", "clear"}
        /\ \A k \in Markers(srvOperations) :
             k # i => srvOperations[k].targetOperationId
                        # srvOperations[i].targetOperationId

\* C20: for a ping message the server sends exactly one pong with the
\* ping's timestamp to the sender, nothing to anyone else, and leaves the
\* log unchanged.
C20_PingAnswered ==
    [][Handled("ping")' =>
         LET u == inbound'[1].userId
         IN /\ sent'[u] = <<[type |-> "pong",
                             timestamp |-> inbound'[1].frame.timestamp]>>
            /\ \A q \in 1..Len(sent') : q # u => sent'[q] = <<>>
            /\ srvOperations' = srvOperations]_serverVars

\* C21: the connection handler registers the new participant, then sends
\* it the welcome, then the history, and only then sends the join
\* notification to the others; the new connection gets no join notification.
C21_HandshakeOrder ==
    [][Len(sendOrder') > 0 =>
         LET u == Len(readyState')
         IN /\ u \in Registered(clients')
            /\ sendOrder'[1] = [to |-> u, type |-> "welcome"]
            /\ \A i, j \in 1..Len(sendOrder') :
                 (sendOrder'[i].type = "history" /\ sendOrder'[j].type = "user-joined")
                     => i < j
            /\ \A j \in 1..Len(sendOrder') :
                 sendOrder'[j].type = "user-joined" => sendOrder'[j].to # u]_serverVars

\* the frames of one type among frames
OfType(frames, type) == SelectSeq(frames, LAMBDA f : f.type = type)

\* C22: the history sent at a handshake holds the last min(100, n) entries
\* of the n-entry log, in log order, and never more than 100 entries.
C22_HistoryIsLogTail ==
    [][Len(sendOrder') > 0 =>
         LET u == Len(readyState')
             n == Len(srvOperations)
             k == IF n < 100 THEN n ELSE 100
             histories == OfType(sent'[u], "history")
         IN /\ n > 0 => Len(histories) = 1
            /\ \A h \in 1..Len(histories) :
                 /\ Len(histories[h].operations) = k
                 /\ Len(histories[h].operations) <= 100
                 /\ \A i \in 1..k :
                      histories[h].operations[i] = srvOperations[n - k + i]]_serverVars

\* a participant connected while the log held more than 100 entries and
\* was sent a history of 100 entries that ends with the last entry
C22_Witness ==
    /\ Len(srvOperations) > 100
    /\ Len(sendOrder) > 0
    /\ \E k \in 1..Len(sent[Len(readyState)]) :
          LET f == sent[Len(readyState)][k]
          IN /\ f.type = "history"
             /\ Len(f.operations) = 100
             /\ f.operations[100] = srvOperations[Len(srvOperations)]

\* C23: the close event of a participant's socket removes the participant
\* from the registry and sends one user-left notification naming it to
\* every remaining open connection; a connection that is no longer in the
\* registry is sent nothing.
C23_CloseRemovesAndNotifies ==
    /\ [][\A u \in UserIds :
            (/\ u \in 1..Len(readyState)
             /\ readyState[u] = "CLOSING"
             /\ readyState'[u] = "CLOSED") =>
                /\ u \notin Registered(clients')
                /\ \A q \in 1..Len(readyState') :
                     Occurrences(sent'[q], [type |-> "user-left", userId |-> u]) =
                         IF q \in Registered(clients') /\ readyState'[q] = "OPEN"
                         THEN 1 ELSE 0]_serverVars
    /\ [](\A u \in 1..Len(readyState) :
            u \notin Registered(clients) => sent[u] = <<>>)

\* a close event was handled while two others were registered: the one
\* with an open socket was told, the one whose socket is closing was not
C23_Witness ==
    /\ Len(bcast) = 1
    /\ bcast[1].message.type = "user-left"
    /\ readyState[bcast[1].message.userId] = "CLOSED"
    /\ bcast[1].message.userId \notin Registered(clients)
    /\ \E q, r \in Registered(clients) :
          /\ readyState[q] = "OPEN"
          /\ sent[q] = <<bcast[1].message>>
          /\ readyState[r] = "CLOSING"
          /\ sent[r] = <<>>

\* C24: a frame that does not parse, or a draw message without data, is
\* dropped: the log, the registry with its cursors and the sockets are
\* unchanged and nothing is sent.
C24_MalformedDropped ==
    [][(/\ Len(inbound') = 1
        /\ \/ inbound'[1].frame.type = "garbage"
           \/ /\ inbound'[1].frame.type = "draw"
              /\ inbound'[1].frame.data = undefined) =>
            /\ srvOperations' = srvOperations
            /\ clients' = clients
            /\ readyState' = readyState
            /\ \A q \in 1..Len(sent') : sent'[q] = <<>>]_serverVars

\* C25: when A's stroke is the first operation and B is connected, B is
\* sent exactly one operation message, carrying version 1, and A none;
\* the history sent to a later participant contains that operation.
C25_StrokeScenario ==
    /\ [][(Handled("draw")' /\ srvOperations = <<>>) =>
            LET A == inbound'[1].userId
            IN /\ sent'[A] = <<>>
               /\ \A B \in Registered(clients') :
                    (B # A /\ readyState'[B] = "OPEN") =>
                        /\ Len(sent'[B]) = 1
                        /\ sent'[B][1].type = "draw"
                        /\ sent'[B][1].data = srvOperations'[1]
                        /\ "version" \in DOMAIN sent'[B][1].data
                        /\ sent'[B][1].data.version = 1]_serverVars
    /\ [](\A C \in 1..Len(sent) :
            \A k \in 1..Len(sent[C]) :
                sent[C][k].type = "history" =>
                    /\ Len(srvOperations) > 0
                    /\ sent[C][k].operations[1] = srvOperations[1])

\* C28: a cursor message of a registered participant sets that
\* participant's cursor and no other, is sent once to every other open
\* connection and not to the sender, and leaves the log unchanged.
C28_CursorFrame ==
    [][Handled("cursor")' =>
         LET u == inbound'[1].userId
             pos == inbound'[1].frame.data
             msg == [type |-> "cursor", userId |-> u, data |-> pos]
         IN /\ clients' = [i \in 1..Len(clients) |->
                             IF clients[i].userId = u
                             THEN [clients[i] EXCEPT !.cursor = pos]
                             ELSE clients[i]]
            /\ srvOperations' = srvOperations
            /\ \A q \in 1..Len(sent') :
                 sent'[q] = IF /\ q \in Registered(clients')
                               /\ q # u
                               /\ readyState'[q] = "OPEN"
                            THEN <<msg>> ELSE <<>>]_serverVars

\* a cursor message moved the sender's cursor, left another participant's
\* cursor at the origin and was sent to that participant only
C28_Witness ==
    /\ Handled("cursor")
    /\ \E i, j \in 1..Len(clients) :
          /\ clients[i].userId = inbound[1].userId
          /\ clients[i].cursor = inbound[1].frame.data
          /\ clients[i].cursor # Origin
          /\ clients[j].userId # inbound[1].userId
          /\ clients[j].cursor = Origin
          /\ Len(sent[clients[j].userId]) = 1
          /\ sent[clients[i].userId] = <<>>

\* C29: a message handled for an id that is not in the registry changes
\* neither the registry nor the log and sends nothing.
C29_UnregisteredNoOp ==
    [][(Len(inbound') = 1 /\ inbound'[1].userId \notin Registered(clients)) =>
         /\ clients' = clients
         /\ srvOperations' = srvOperations
         /\ bcast' = <<>>
         /\ \A q \in 1..Len(sent') : sent'[q] = <<>>]_serverVars

\* a draw message of an evicted participant, whose socket had not yet
\* emitted its close event, was handled while another participant was open
C29_Witness ==
    /\ Len(inbound) = 1
    /\ inbound[1].userId \notin Registered(clients)
    /\ inbound[1].frame.type = "draw"
    /\ readyState[inbound[1].userId] = "CLOSING"
    /\ \E q \in Registered(clients) : readyState[q] = "OPEN"
    /\ srvOperations = <<>>

\* C30: every draw or clear message handled appends its operation at the
\* end of the log, so that the log is in processing order, and in the same
\* handler run the operation, and nothing else, is sent to every other
\* open connection; each recipient thus gets the operations in log order.
C30_LogInProcessingOrder ==
    /\ [][(Handled("draw")' \/ Handled("clear")') =>
            LET u == inbound'[1].userId
                op == lastOperation(srvOperations')
            IN /\ srvOperations' = Append(srvOperations, op)
               /\ op.userId = u
               /\ op.type = inbound'[1].frame.type
               /\ \A i \in 1..Len(srvOperations) : op.operationId > srvOperations[i].operationId
               /\ \A q \in 1..Len(sent') :
                    sent'[q] = IF /\ q \in Registered(clients')
                                  /\ q # u
                                  /\ readyState'[q] = "OPEN"
                               THEN <<[type |-> op.type, data |-> op]>>
                               ELSE <<>>]_serverVars
    /\ [](\A i, j \in 1..Len(srvOperations) :
            i < j => srvOperations[i].operationId < srvOperations[j].operationId)

\* two participants' messages were handled one after the other: the log
\* holds a stroke of one followed by a clear of the other, and the clear
\* was sent to the author of the stroke
C30_Witness ==
    /\ Handled("clear")
    /\ Len(srvOperations) = 2
    /\ srvOperations[1].type = "draw"
    /\ srvOperations[2].type = "clear"
    /\ srvOperations[1].userId # srvOperations[2].userId
    /\ sent[srvOperations[1].userId] = <<[type |-> "clear", data |-> srvOperations[2]]>>
    /\ sent[srvOperations[2].userId] = <<>>

(***************************************************************************)
(* WebSocketClient: the reconnecting transport of the client               *)
(***************************************************************************)
\* number of WebSocket objects one transport creates
MaxSockets == 6
\* number of connect() calls the application makes
MaxConnectCalls == 1
\* number of send() calls, by the application or by a ping interval
MaxSends == 2

\* this.maxReconnectAttempts and the initial this.reconnectDelay
maxReconnectAttempts == 5
baseReconnectDelay == 1000

\* the kinds of message the application sends
AppMessages == {[type |-> "cursor"]}

\* the n-th object passed to send(): two calls never pass the same object
nth(message, n) == [type |-> message.type, seq |-> n]

VARIABLES
    ws,                 \* this.ws: the index in socks of the newest WebSocket, 0 for null
    socks,              \* readyState of every WebSocket the transport created
    wire,               \* per WebSocket, the frames passed to its send(), in order
    reconnectAttempts,  \* this.reconnectAttempts
    reconnectDelay,     \* this.reconnectDelay, as the fraction <<numerator, denominator>>
    isConnected,        \* this.isConnected
    messageQueue,       \* this.messageQueue
    timers,             \* number of reconnect timers set and not yet fired
    pingIntervals,      \* number of ping intervals set (none is ever cleared)
    hung,               \* processMessageQueue is in a loop that does not end
    scheduled,          \* observation: the delays passed to setTimeout, in order
    connectCalls,       \* observation: connect() calls made by the application
    sendCalls,          \* observation: send() calls made so far
    reopened,           \* observation: a connection opened after some socket had closed
    sendLog,            \* observation: the messages passed to send() by its callers, in order
    flushed,            \* observation: the queue the last onopen handed to processMessageQueue
    disconnected        \* observation: disconnect() was called after the last connect() call

transportVars == <<ws, socks, wire, reconnectAttempts, reconnectDelay, isConnected,
                   messageQueue, timers, pingIntervals, hung, scheduled,
                   connectCalls, sendCalls, reopened, sendLog, flushed, disconnected>>

\* a fraction with a power of two as denominator, in lowest terms
RECURSIVE Lowest(_)
Lowest(d) ==
    IF d[2] > 1 /\ d[1] % 2 = 0 /\ d[2] % 2 = 0
    THEN Lowest(<<d[1] \div 2, d[2] \div 2>>)
    ELSE d

\* this.reconnectDelay *= 1.5, exact in double precision for the values
\* the model reaches
backoff_double(d) == Lowest(<<d[1] * 2, d[2]>>)

backoff(d) == Lowest(<<d[1] * 3, d[2] * 2>>)

\* the test that decides whether onclose sets a reconnect timer
mayReconnect_le(attempts) == attempts <= maxReconnectAttempts

mayReconnect(attempts) == attempts < maxReconnectAttempts

InitTransport ==
    /\ ws = 0
    /\ socks = <<>>
    /\ wire = <<>>
    /\ reconnectAttempts = 0
    /\ reconnectDelay = <<baseReconnectDelay, 1>>
    /\ isConnected = FALSE
    /\ messageQueue = <<>>
    /\ timers = 0
    /\ pingIntervals = 0
    /\ hung = FALSE
    /\ scheduled = <<>>
    /\ connectCalls = 0
    /\ sendCalls = 0
    /\ reopened = FALSE
    /\ sendLog = <<>>
    /\ flushed = <<>>
    /\ disconnected = FALSE

\* the body of connect(): a new WebSocket with its handlers, and one more
\* ping interval
connect ==
    /\ socks' = Append(socks, "CONNECTING")
    /\ wire' = Append(wire, <<>>)
    /\ ws' = Len(socks) + 1
    /\ pingIntervals' = pingIntervals + 1

\* the application calls connect()
Connect ==
    /\ ~hung
    /\ connectCalls < MaxConnectCalls
    /\ Len(socks) < MaxSockets
    /\ connect
    /\ connectCalls' = connectCalls + 1
    /\ disconnected' = FALSE
    /\ UNCHANGED <<reconnectAttempts, reconnectDelay, isConnected, messageQueue,
                   timers, hung, scheduled, sendCalls, reopened, sendLog, flushed>>

\* send(message) with this.isConnected = conn and the sockets rs:
\* the frames on the wire and the queue afterwards
sendTo(conn, rs, w, queue, message) ==
    IF conn /\ rs[ws] = "OPEN"
    THEN [wire |-> [w EXCEPT ![ws] = Append(@, message)], queue |-> queue]
    ELSE [wire |-> w, queue |-> Append(queue, message)]

\* processMessageQueue() run from onopen, where this.isConnected is true:
\* every queued message is shifted and passed to send()
RECURSIVE drain_pop(_, _, _)
drain_pop(rs, w, queue) ==
    IF Len(queue) = 0 THEN [wire |-> w, queue |-> queue]
    ELSE LET r == sendTo(TRUE, rs, w, SubSeq(queue, 1, Len(queue) - 1), queue[Len(queue)])
         IN drain_pop(rs, r.wire, r.queue)

RECURSIVE drain(_, _, _)
drain(rs, w, queue) ==
    IF Len(queue) = 0 THEN [wire |-> w, queue |-> queue]
    ELSE LET r == sendTo(TRUE, rs, w, Tail(queue), Head(queue))
         IN drain(rs, r.wire, r.queue)

\* ws.onopen of socket s
onopen(s) ==
    /\ ~hung
    /\ s \in 1..Len(socks)
    /\ socks[s] = "CONNECTING"
    /\ socks' = [socks EXCEPT ![s] = "OPEN"]
    /\ isConnected' = TRUE
    /\ reconnectAttempts' = 0
    /\ reopened' = (reopened \/ \E t \in 1..Len(socks) : socks[t] = "CLOSED")
    /\ IF Len(messageQueue) > 0 /\ socks'[ws] # "OPEN"
       THEN \* send() puts every message it is given back into the queue
            /\ hung' = TRUE
            /\ UNCHANGED <<wire, messageQueue, flushed>>
       ELSE LET r == drain(socks', wire, messageQueue)
            IN /\ wire' = r.wire
               /\ messageQueue' = r.queue
               /\ flushed' = messageQueue
               /\ UNCHANGED hung
    /\ UNCHANGED <<ws, reconnectDelay, timers, pingIntervals, scheduled,
                   connectCalls, sendCalls, sendLog, disconnected>>

\* ws.onclose of socket s: the connection failed, was dropped or was closed
onclose(s) ==
    /\ ~hung
    /\ s \in 1..Len(socks)
    /\ socks[s] # "CLOSED"
    /\ socks' = [socks EXCEPT ![s] = "CLOSED"]
    /\ isConnected' = FALSE
    /\ IF mayReconnect(reconnectAttempts)
       THEN /\ timers' = timers + 1
            /\ scheduled' = Append(scheduled, reconnectDelay)
       ELSE UNCHANGED <<timers, scheduled>>
    /\ UNCHANGED <<ws, wire, reconnectAttempts, reconnectDelay, messageQueue,
                   pingIntervals, hung, connectCalls, sendCalls, reopened,
                   sendLog, flushed, disconnected>>

\* a timer that stays set after its callback has run, as one set with
\* setInterval would
expire_repeat(pending) == pending

\* setTimeout: the timer whose callback runs is no longer pending
expire(pending) == pending - 1

\* the callback of a reconnect timer
ReconnectTimer ==
    /\ ~hung
    /\ timers > 0
    /\ Len(socks) < MaxSockets
    /\ timers' = expire(timers)
    /\ reconnectAttempts' = reconnectAttempts + 1
    /\ reconnectDelay' = backoff(reconnectDelay)
    /\ connect
    /\ UNCHANGED <<isConnected, messageQueue, hung, scheduled, connectCalls,
                   sendCalls, reopened, sendLog, flushed, disconnected>>

\* the application calls send(message)
Send(message) ==
    /\ ~hung
    /\ sendCalls < MaxSends
    /\ sendCalls' = sendCalls + 1
    /\ sendLog' = Append(sendLog, nth(message, sendCalls + 1))
    /\ LET r == IF ws = 0
                THEN [wire |-> wire,
                      queue |-> Append(messageQueue, nth(message, sendCalls + 1))]
                ELSE sendTo(isConnected, socks, wire, messageQueue,
                            nth(message, sendCalls + 1))
       IN /\ wire' = r.wire
          /\ messageQueue' = r.queue
    /\ UNCHANGED <<ws, socks, reconnectAttempts, reconnectDelay, isConnected, timers,
                   pingIntervals, hung, scheduled, connectCalls, reopened,
                   flushed, disconnected>>

\* the callback of a ping interval when its test passes (it does nothing
\* otherwise)
PingInterval ==
    /\ ~hung
    /\ pingIntervals > 0
    /\ sendCalls < MaxSends
    /\ isConnected /\ socks[ws] = "OPEN"
    /\ sendCalls' = sendCalls + 1
    /\ sendLog' = Append(sendLog, nth([type |-> "ping"], sendCalls + 1))
    /\ LET r == sendTo(isConnected, socks, wire, messageQueue,
                       nth([type |-> "ping"], sendCalls + 1))
       IN /\ wire' = r.wire
          /\ messageQueue' = r.queue
    /\ UNCHANGED <<ws, socks, reconnectAttempts, reconnectDelay, isConnected, timers,
                   pingIntervals, hung, scheduled, connectCalls, reopened,
                   flushed, disconnected>>

\* WebSocket.close(): a socket that is closing or closed stays as it is
close(state) == IF state \in {"CONNECTING", "OPEN"} THEN "CLOSING" ELSE state

\* disconnect(): close() on the newest WebSocket; its close event follows.
\* The application calls it at most once after each connect() call.
Disconnect ==
    /\ ~hung
    /\ ws # 0
    /\ ~disconnected
    /\ socks' = [socks EXCEPT ![ws] = close(@)]
    /\ disconnected' = TRUE
    /\ UNCHANGED <<ws, wire, reconnectAttempts, reconnectDelay, isConnected,
                   messageQueue, timers, pingIntervals, hung, scheduled,
                   connectCalls, sendCalls, reopened, sendLog, flushed>>

SocketIds == 1..MaxSockets

(***************************************************************************)
(* Claims about the transport                                              *)
(***************************************************************************)
\* 1000, 1500, 2250, 3375 and 5062.5
ExpectedDelays == <<<<1000, 1>>, <<1500, 1>>, <<2250, 1>>, <<3375, 1>>, <<10125, 2>>>>

IsPrefix(p, q) == Len(p) <= Len(q) /\ \A i \in 1..Len(p) : p[i] = q[i]

\* C9: for a transport the application connected once and on which no
\* connection opened after the first close, the delays of the reconnect
\* timers are 1000, 1500, 2250, 3375 and 5062.5 in this order, and there
\* is no sixth timer.
C9_BackoffDelays ==
    (connectCalls <= 1 /\ ~reopened) => IsPrefix(scheduled, ExpectedDelays)

\* all five reconnect attempts were made and the last one failed
C9_Witness ==
    /\ connectCalls = 1
    /\ ~reopened
    /\ Len(scheduled) = 5
    /\ Len(socks) = 6
    /\ socks[6] = "CLOSED"

\* no socket is left that could open or close, and no timer is pending
Terminal ==
    /\ reconnectAttempts >= maxReconnectAttempts
    /\ timers = 0
    /\ \A s \in 1..Len(socks) : socks[s] = "CLOSED"

\* C10: a close that finds the attempt counter at or above
\* maxReconnectAttempts sets no reconnect timer and leaves the transport
\* disconnected; once no socket and no timer is left, no new connection
\* is attempted until the application calls connect().
C10_NoReconnectAfterMax ==
    /\ [][((\E s \in 1..Len(socks) : socks[s] # "CLOSED" /\ socks'[s] = "CLOSED")
           /\ reconnectAttempts >= maxReconnectAttempts) =>
            /\ timers' = timers
            /\ scheduled' = scheduled
            /\ Len(socks') = Len(socks)
            /\ ~isConnected']_transportVars
    /\ [][(Terminal /\ connectCalls' = connectCalls) =>
            /\ Terminal'
            /\ Len(socks') = Len(socks)
            /\ ~isConnected']_transportVars

\* the fifth reconnect attempt has failed and the application then
\* sent a message, which stays queued
C10_Witness ==
    /\ Terminal
    /\ reconnectAttempts = maxReconnectAttempts
    /\ ~isConnected
    /\ Len(messageQueue) > 0

\* the frames transmitted so far: those of the first n sockets, in the
\* order the sockets were created
RECURSIVE Transmitted(_, _)
Transmitted(w, n) == IF n = 0 THEN <<>> ELSE Transmitted(w, n - 1) \o w[n]

\* socket s opens in this step
Opens(s) == s \in 1..Len(socks) /\ socks[s] = "CONNECTING" /\ socks'[s] = "OPEN"

C12_OpenResetsBackoff ==
    [][\A s \in SocketIds : Opens(s) =>
         /\ reconnectAttempts' = 0
         /\ reconnectDelay' = <<baseReconnectDelay, 1>>]_transportVars

\* C13: after disconnect(), until the application calls connect() again,
\* no reconnect timer is set, none fires and no socket is created, and
\* once the socket has closed the transport is not connected.
C13_DisconnectStaysDown ==
    [][disconnected =>
         /\ Len(scheduled') = Len(scheduled)
         /\ (connectCalls' = connectCalls => Len(socks') = Len(socks))
         /\ (\A s \in 1..Len(socks') : socks'[s] = "CLOSED") => ~isConnected']_transportVars

\* C35: a transport never has more than one ping interval running, however
\* many times connect() has run, so that it sends at most one ping per
\* 30 seconds.
C35_OnePingInterval ==
    pingIntervals <= 1

MaxPeers == 2
\* number of messages the application handles
MaxInbound == 4
\* number of events of the user the application handles
MaxGestures == 6
\* number of addOperation calls next to the events of the user
MaxRedoAdds == 1

PeerIds == 1..MaxPeers
\* a colour generateRandomColor() may assign, other than the default
PeerColors == {"#4ECDC4"}

\* the operations that reach a client, with the payload's properties
\* spread into the operation as the server's draw case leaves them
\* (a property that is undefined is a field the record does not have):
\* a stroke of two points, a draw operation without payload, a clear
\* operation and an undo marker
RemoteStrokes ==
    {[userId |-> u, operationId |-> 1,
      points |-> <<Origin, [x |-> 5, y |-> 7]>>, color |-> c] :
        u \in PeerIds, c \in PeerColors}

RemoteEmpty == {[userId |-> u, operationId |-> 1] : u \in PeerIds}

RemoteClears ==
    {[userId |-> u, operationId |-> 2, type |-> "clear"] : u \in PeerIds}

RemoteUndos ==
    {[userId |-> u, operationId |-> 3, type |-> "undo"] : u \in PeerIds}

\* the participant snapshots of a welcome for userId: the registry always
\* holds the new participant itself
Snapshots(userId) ==
    {SelectSeq([i \in 1..MaxPeers |-> [id |-> i, color |-> c, cursor |-> Origin]],
               LAMBDA e : e.id \in S) :
        S \in {T \in SUBSET PeerIds : userId \in T}, c \in PeerColors}

\* the messages the transport hands to handleWebSocketMessage
ServerMessages ==
    UNION {{[type |-> "welcome", userId |-> u, color |-> c, users |-> s] :
               s \in Snapshots(u)} : u \in PeerIds, c \in PeerColors}
    \cup {[type |-> "user-joined", userId |-> u, color |-> c] :
             u \in PeerIds, c \in PeerColors}
    \cup {[type |-> "user-left", userId |-> u] : u \in PeerIds}
    \cup {[type |-> "draw", data |-> op] : op \in RemoteStrokes \cup RemoteEmpty}
    \cup {[type |-> "cursor", userId |-> u, data |-> [x |-> 5, y |-> 7]] : u \in PeerIds}
    \cup {[type |-> "clear", data |-> op] : op \in RemoteClears}
    \cup {[type |-> "undo", data |-> op] : op \in RemoteUndos}
    \cup {[type |-> "history", operations |-> <<s, c>>] :
             s \in RemoteStrokes, c \in RemoteClears}
    \cup {[type |-> "history", operations |-> <<s>>] : s \in RemoteStrokes}

VARIABLES
    appUserId,          \* this.userId of the application, noUser for null
    appUserColor,       \* this.userColor
    currentColor,       \* this.currentColor
    users,              \* this.users: the Map's entries in insertion order
    usersList,          \* the ids shown in the element users-list, in order
    remoteCursors,      \* the ids that have a cursor element, with its position
    canvas,             \* the paths drawn on the canvas since it was last cleared
    operationHistory,   \* this.operationHistory
    redoHistory,        \* this.redoHistory
    notification,       \* the kind of notification shown last
    appInbound,         \* observation: the message the last handler received
    appHandled,         \* number of messages handled so far
    isDrawing,          \* this.isDrawing, and with it the canvas's isDrawing
    currentPath,        \* the canvas's currentPath
    appSent,            \* observation: the messages the last step passed to wsClient.send
    undone,             \* observation: the histories before the undo() that was the last
                        \* step, or that the redo() of the last step followed at once
    lastGesture,        \* observation: the handler of the user's event the last step ran
    gestures            \* number of events of the user handled so far

clientVars == <<appUserId, appUserColor, currentColor, users, usersList,
                remoteCursors, canvas, operationHistory, redoHistory,
                notification, appInbound, appHandled, isDrawing, currentPath,
                appSent, undone, lastGesture, gestures>>

InitClient ==
    /\ appUserId = noUser
    /\ appUserColor = "#FF6B6B"
    /\ currentColor = "#FF6B6B"
    /\ users = <<>>
    /\ usersList = <<>>
    /\ remoteCursors = <<>>
    /\ canvas = <<>>
    /\ operationHistory = <<>>
    /\ redoHistory = <<>>
    /\ notification = "none"
    /\ appInbound = <<>>
    /\ appHandled = 0
    /\ isDrawing = FALSE
    /\ currentPath = <<>>
    /\ appSent = <<>>
    /\ undone = <<>>
    /\ lastGesture = "none"
    /\ gestures = 0

\* Map.prototype.set: a known key keeps its place, a new one goes last
set(map, key, value) ==
    IF \E i \in 1..Len(map) : map[i].id = key
    THEN [i \in 1..Len(map) |-> IF map[i].id = key THEN value ELSE map[i]]
    ELSE Append(map, value)

\* Map.prototype.has
has(map, key) == \E i \in 1..Len(map) : map[i].id = key

\* updateUsersList(list): the current user first, then the others of list
updateUsersList(list, self) ==
    <<self>> \o [i \in 1..Len(SelectSeq(list, LAMBDA e : e.id # self)) |->
                   SelectSeq(list, LAMBDA e : e.id # self)[i].id]

\* DrawingCanvas.drawPath(operation.points, operation.color, ...)
drawPath(cv, operation) ==
    IF "points" \notin DOMAIN operation THEN cv
    ELSE IF Len(operation.points) < 2 THEN cv
    ELSE Append(cv, [points |-> operation.points, color |-> operation.color])

\* the test of handleRemoteDraw for an operation of the client itself
isOwn_never(operation, self) == FALSE

isOwn(operation, self) == operation.userId = self

handleWelcome(message) ==
    /\ appUserId' = message.userId
    /\ appUserColor' = message.color
    /\ currentColor' = message.color
    /\ usersList' = updateUsersList(message.users, message.userId)
    /\ notification' = "connected"
    /\ UNCHANGED <<users, remoteCursors, canvas, operationHistory, redoHistory,
                   currentPath>>

handleUserJoined(message) ==
    /\ users' = set(users, message.userId,
                    [id |-> message.userId, color |-> message.color, cursor |-> Origin])
    /\ usersList' = updateUsersList(users', appUserId)
    /\ notification' = "joined"
    /\ UNCHANGED <<appUserId, appUserColor, currentColor, currentPath, remoteCursors, canvas,
                   operationHistory, redoHistory>>

handleUserLeft(message) ==
    /\ users' = SelectSeq(users, LAMBDA e : e.id # message.userId)
    /\ remoteCursors' = SelectSeq(remoteCursors, LAMBDA e : e.id # message.userId)
    /\ usersList' = updateUsersList(users', appUserId)
    /\ notification' = "left"
    /\ UNCHANGED <<appUserId, appUserColor, currentColor, currentPath, canvas,
                   operationHistory, redoHistory>>

handleRemoteDraw(operation) ==
    /\ canvas' = IF isOwn(operation, appUserId) THEN canvas
                 ELSE drawPath(canvas, operation)
    /\ UNCHANGED <<appUserId, appUserColor, currentColor, currentPath, users, usersList,
                   remoteCursors, operationHistory, redoHistory, notification>>

handleRemoteCursor(userId, position) ==
    IF ~has(users, userId)
    THEN UNCHANGED <<appUserId, appUserColor, currentColor, currentPath, users, usersList,
                     remoteCursors, canvas, operationHistory, redoHistory,
                     notification>>
    ELSE /\ users' = [i \in 1..Len(users) |->
                        IF users[i].id = userId
                        THEN [users[i] EXCEPT !.cursor = position]
                        ELSE users[i]]
         /\ remoteCursors' = set(remoteCursors, userId,
                                 [id |-> userId, position |-> position])
         /\ UNCHANGED <<appUserId, appUserColor, currentColor, currentPath, usersList, canvas,
                        operationHistory, redoHistory, notification>>

handleRemoteClear ==
    /\ canvas' = <<>>
    /\ currentPath' = <<>>
    /\ operationHistory' = <<>>
    /\ redoHistory' = <<>>
    /\ UNCHANGED <<appUserId, appUserColor, users, usersList, remoteCursors,
                   notification, currentColor>>

\* a variant that also takes the newest path off the canvas
handleRemoteUndo_pop(operation) ==
    /\ notification' = "undo"
    /\ canvas' = SubSeq(canvas, 1, Len(canvas) - 1)
    /\ UNCHANGED <<appUserId, appUserColor, currentColor, currentPath, users,
                   usersList, remoteCursors, operationHistory, redoHistory>>

handleRemoteUndo(operation) ==
    /\ notification' = "undo"
    /\ UNCHANGED <<appUserId, appUserColor, currentColor, currentPath, users, usersList,
                   remoteCursors, canvas, operationHistory, redoHistory>>

\* the loop of handleHistory over the operations from position i on
RECURSIVE replay(_, _, _)
replay(cv, ops, i) ==
    IF i > Len(ops) THEN cv
    ELSE replay(IF "type" \in DOMAIN ops[i] /\ ops[i].type = "clear" THEN <<>>
                ELSE IF "points" \in DOMAIN ops[i] THEN drawPath(cv, ops[i])
                ELSE cv,
                ops, i + 1)

handleHistory(ops) ==
    /\ canvas' = replay(canvas, ops, 1)
    /\ currentPath' = IF \E i \in 1..Len(ops) :
                            "type" \in DOMAIN ops[i] /\ ops[i].type = "clear"
                      THEN <<>>
                      ELSE currentPath
    /\ UNCHANGED <<appUserId, appUserColor, users, usersList, remoteCursors,
                   operationHistory, redoHistory, notification, currentColor>>

\* handleWebSocketMessage(message), as the transport's onmessage calls it;
\* the switch has no default case
handleWebSocketMessage(message) ==
    /\ appHandled < MaxInbound
    /\ appHandled' = appHandled + 1
    /\ appInbound' = <<message>>
    /\ appSent' = <<>>
    /\ undone' = <<>>
    /\ lastGesture' = "none"
    /\ UNCHANGED <<isDrawing, gestures>>
    /\ CASE message.type = "welcome" -> handleWelcome(message)
         [] message.type = "user-joined" -> handleUserJoined(message)
         [] message.type = "user-left" -> handleUserLeft(message)
         [] message.type = "draw" -> handleRemoteDraw(message.data)
         [] message.type = "cursor" -> handleRemoteCursor(message.userId, message.data)
         [] message.type = "clear" -> handleRemoteClear
         [] message.type = "undo" -> handleRemoteUndo(message.data)
         [] message.type = "history" -> handleHistory(message.operations)
         [] OTHER -> UNCHANGED <<appUserId, appUserColor, currentColor, currentPath, users,
                                 usersList, remoteCursors, canvas, operationHistory,
                                 redoHistory, notification>>

\* the messages the application passes to wsClient.send
cursorMessage(position) == [type |-> "cursor", data |-> position]

drawMessage(points, color) ==
    [type |-> "draw", data |-> [points |-> points, color |-> color]]

\* points.slice(-2)
lastTwo(points) ==
    IF Len(points) <= 2 THEN points ELSE SubSeq(points, Len(points) - 1, Len(points))

\* the entry stopDrawing and undo/redo keep in the histories (width, tool
\* and timestamp are left out)
stroke(path, color) == [points |-> path, color |-> color]

\* the loop of undo() that draws the operations that are left again
RECURSIVE redraw(_, _, _)
redraw(cv, ops, i) ==
    IF i > Len(ops) THEN cv ELSE redraw(drawPath(cv, ops[i]), ops, i + 1)

\* a variant that forgets the operation it has taken back
keep_none(history, lastOp) == history

\* this.redoHistory.push(lastOp)
keep(history, lastOp) == Append(history, lastOp)

\* a variant that leaves the redo history as it is
invalidate_never(history) == history

\* this.redoHistory = [] of stopDrawing
invalidate(history) == <<>>

\* one more event of the user
Gesture ==
    /\ gestures < MaxGestures
    /\ gestures' = gestures + 1
    /\ appInbound' = <<>>
    /\ UNCHANGED <<appUserId, appUserColor, users, usersList, remoteCursors,
                   appHandled>>

\* startDrawing(e): mousedown or touchstart at position; this.currentTool
\* is 'clear' only while setTool('clear') runs
startDrawing(position) ==
    /\ Gesture
    /\ lastGesture' = "startDrawing"
    /\ undone' = <<>>
    /\ isDrawing' = TRUE
    /\ currentPath' = <<position>>
    /\ appSent' = <<cursorMessage(position)>>
    /\ UNCHANGED <<currentColor, canvas, operationHistory, redoHistory, notification>>

\* draw(e): mousemove or touchmove to position
draw(position) ==
    /\ Gesture
    /\ lastGesture' = "draw"
    /\ undone' = <<>>
    /\ IF ~isDrawing
       THEN /\ appSent' = <<cursorMessage(position)>>
            /\ UNCHANGED <<currentPath, canvas>>
       ELSE /\ currentPath' = Append(currentPath, position)
            /\ canvas' = Append(canvas, stroke(lastTwo(currentPath'), currentColor))
            /\ appSent' = <<drawMessage(lastTwo(currentPath'), currentColor),
                            cursorMessage(position)>>
    /\ UNCHANGED <<currentColor, isDrawing, operationHistory, redoHistory, notification>>

\* stopDrawing(): mouseup, mouseleave or touchend
stopDrawing ==
    /\ Gesture
    /\ lastGesture' = "stopDrawing"
    /\ undone' = <<>>
    /\ appSent' = <<>>
    /\ isDrawing' = FALSE
    /\ IF isDrawing /\ Len(currentPath) > 0
       THEN /\ operationHistory' = Append(operationHistory,
                                          stroke(currentPath, currentColor))
            /\ redoHistory' = invalidate(redoHistory)
       ELSE UNCHANGED <<operationHistory, redoHistory>>
    /\ UNCHANGED <<currentColor, currentPath, canvas, notification>>

\* clearCanvas(), run by setTool('clear')
clearCanvas ==
    /\ Gesture
    /\ lastGesture' = "clearCanvas"
    /\ undone' = <<>>
    /\ canvas' = <<>>
    /\ currentPath' = <<>>
    /\ appSent' = <<[type |-> "clear"]>>
    /\ notification' = "cleared"
    /\ UNCHANGED <<currentColor, isDrawing, operationHistory, redoHistory>>

\* undo(): a click on undo-btn
Undo ==
    /\ Gesture
    /\ lastGesture' = "undo"
    /\ IF Len(operationHistory) = 0
       THEN /\ appSent' = <<>>
            /\ undone' = <<>>
            /\ UNCHANGED <<operationHistory, redoHistory, canvas, currentPath,
                           notification>>
       ELSE /\ operationHistory' = SubSeq(operationHistory, 1, Len(operationHistory) - 1)
            /\ redoHistory' = keep(redoHistory, operationHistory[Len(operationHistory)])
            /\ canvas' = redraw(<<>>, operationHistory', 1)
            /\ currentPath' = <<>>
            /\ appSent' = <<[type |-> "undo"]>>
            /\ notification' = "undone"
            /\ undone' = <<[operationHistory |-> operationHistory,
                            redoHistory |-> redoHistory, redone |-> FALSE]>>
    /\ UNCHANGED <<currentColor, isDrawing>>

\* redo(): a click on redo-btn
Redo ==
    /\ Gesture
    /\ lastGesture' = "redo"
    /\ undone' = IF Len(undone) = 1 /\ ~undone[1].redone
                 THEN <<[undone[1] EXCEPT !.redone = TRUE]>>
                 ELSE <<>>
    /\ appSent' = <<>>
    /\ IF Len(redoHistory) = 0
       THEN UNCHANGED <<operationHistory, redoHistory, canvas, notification>>
       ELSE /\ redoHistory' = SubSeq(redoHistory, 1, Len(redoHistory) - 1)
            /\ operationHistory' = Append(operationHistory, redoHistory[Len(redoHistory)])
            /\ canvas' = drawPath(canvas, redoHistory[Len(redoHistory)])
            /\ notification' = "redone"
    /\ UNCHANGED <<currentColor, isDrawing, currentPath>>

(***************************************************************************)
(* Claims about the application                                            *)
(***************************************************************************)
\* a message of the type was the last one handled
Got(type) == Len(appInbound) = 1 /\ appInbound[1].type = type

\* C26: after a welcome the application's identity and colour are those of
\* the message, and this.users holds every participant of the snapshot
\* other than the application itself.
C26_WelcomeSeedsPeers ==
    [][Got("welcome")' =>
         LET message == appInbound'[1]
         IN /\ appUserId' = message.userId
            /\ appUserColor' = message.color
            /\ \A i \in 1..Len(message.users) :
                 message.users[i].id # message.userId
                     => has(users', message.users[i].id)]_clientVars

C33_NewOperationClearsRedo ==
    /\ [][call'.op = "addOperation" => redoStack' = <<>>]_stateVars
    /\ [][(lastGesture' = "stopDrawing" /\ isDrawing /\ Len(currentPath) > 0) =>
            /\ Len(operationHistory') = Len(operationHistory) + 1
            /\ redoHistory' = <<>>]_clientVars
    /\ [][(lastGesture' = "redo" /\ Len(redoHistory) = 0) =>
            UNCHANGED <<operationHistory, redoHistory, canvas>>]_clientVars

\* a stroke was recorded while an undone stroke was waiting in redoHistory,
\* and DrawingState was given an operation
C33_Witness ==
    /\ lastGesture = "stopDrawing"
    /\ Len(operationHistory) = 1
    /\ notification = "undone"
    /\ redoHistory = <<>>
    /\ Len(operations) > 0
    /\ redoStack = <<>>

\* C38: a redo() that follows an undo() at once puts operationHistory and
\* redoHistory back to what they were before the undo; undo() on an empty
\* operationHistory and redo() on an empty redoHistory change nothing and
\* send no message.
C38_UndoRedoRoundTrip ==
    /\ []((Len(undone) = 1 /\ undone[1].redone) =>
            /\ operationHistory = undone[1].operationHistory
            /\ redoHistory = undone[1].redoHistory)
    /\ [][((lastGesture' = "undo" /\ Len(operationHistory) = 0)
           \/ (lastGesture' = "redo" /\ Len(redoHistory) = 0)) =>
            /\ appSent' = <<>>
            /\ UNCHANGED <<operationHistory, redoHistory, canvas, currentPath,
                           isDrawing, notification>>]_clientVars

\* a redo() right after an undo() brought a stroke back while an older
\* stroke was in operationHistory
C38_Witness ==
    /\ Len(undone) = 1
    /\ undone[1].redone
    /\ notification = "redone"
    /\ Len(operationHistory) >= 2

(***************************************************************************)
(* One application on its transport, and the server with such clients      *)
(***************************************************************************)
\* number of WebSockets of one application the server sends messages on
MaxSessions == 2
\* number of messages the server sends on one connection
MaxDownlink == 2

VARIABLES
    promise,      \* the promise of the connect() call init() awaits
    onMessage,    \* this.wsClient.onMessage is set
    downlink,     \* per WebSocket, the number of messages of the server it delivered
    discarded,    \* observation: the message the last onmessage did not pass on
    probed        \* the participants whose ping the server handled, or that
                  \* connected, since the cleanup interval last became due

sessionVars == <<promise, onMessage, downlink, discarded, probed>>

InitSession ==
    /\ promise = "none"
    /\ onMessage = FALSE
    /\ downlink = <<>>
    /\ discarded = <<>>
    /\ probed = {}

\* CollaborativeDrawingApp.init() up to its await: the one connect() call
\* of the application
init ==
    /\ promise = "none"
    /\ Connect
    /\ promise' = "pending"
    /\ downlink' = Append(downlink, 0)
    /\ discarded' = <<>>
    /\ UNCHANGED <<onMessage, probed>>

\* ws.onopen of socket s. resolve() settles the promise of the connect()
\* call that created s; init() awaits the one of socket 1 and goes on
\* right after the handler, before any other event: it sets the listeners
\* and this.wsClient.onMessage
sessionOpen(s) ==
    /\ onopen(s)
    /\ IF s = 1 /\ promise = "pending"
       THEN promise' = "resolved" /\ onMessage' = TRUE
       ELSE UNCHANGED <<promise, onMessage>>
    /\ discarded' = <<>>
    /\ UNCHANGED <<downlink, probed>>

\* ws.onerror and then ws.onclose of a socket s that failed to connect:
\* reject(error) makes the await of init() throw, and init() ends there
onerror(s) ==
    /\ s \in 1..Len(socks)
    /\ socks[s] = "CONNECTING"
    /\ onclose(s)
    /\ promise' = IF s = 1 /\ promise = "pending" THEN "rejected" ELSE promise
    /\ discarded' = <<>>
    /\ UNCHANGED <<onMessage, downlink, probed>>

\* ws.onclose of a socket s that was open
sessionClose(s) ==
    /\ s \in 1..Len(socks)
    /\ socks[s] = "OPEN"
    /\ onclose(s)
    /\ discarded' = <<>>
    /\ UNCHANGED <<promise, onMessage, downlink, probed>>

\* the callback of the reconnect timer
sessionReconnect ==
    /\ Len(socks) < MaxSessions
    /\ ReconnectTimer
    /\ downlink' = Append(downlink, 0)
    /\ discarded' = <<>>
    /\ UNCHANGED <<promise, onMessage, probed>>

\* the server sends welcome first on a connection, history only right
\* after it, and then its broadcasts
inOrder(n, message) ==
    IF n = 0 THEN message.type = "welcome"
    ELSE IF n = 1 THEN message.type # "welcome"
    ELSE message.type \notin {"welcome", "history"}

\* ws.onmessage of socket s for a message of the server (a pong, which the
\* server never sends, would stop here)
onmessage(s, message) ==
    /\ ~hung
    /\ s \in 1..Len(socks)
    /\ socks[s] = "OPEN"
    /\ downlink[s] < MaxDownlink
    /\ inOrder(downlink[s], message)
    /\ downlink' = [downlink EXCEPT ![s] = @ + 1]
    /\ IF onMessage
       THEN /\ handleWebSocketMessage(message)
            /\ discarded' = <<>>
       ELSE /\ discarded' = <<message>>
            /\ UNCHANGED clientVars
    /\ UNCHANGED <<promise, onMessage, probed, transportVars>>

\* the frame the ping interval of a client sends
PingFrame == [type |-> "ping", data |-> undefined, timestamp |-> PingSentAt]

\* a WebSocket of a client connects to the server
probeConnection(userColor) ==
    /\ Connection(userColor)
    /\ probed' = probed \cup {Len(readyState')}
    /\ UNCHANGED <<promise, onMessage, downlink, discarded>>

\* the ping interval of the client of userId has run and the server
\* handles its message
probePing(userId) ==
    /\ userId \in 1..Len(readyState)
    /\ userId \notin probed
    /\ readyState[userId] = "OPEN"
    /\ OnMessage(userId, PingFrame)
    /\ probed' = probed \cup {userId}
    /\ UNCHANGED <<promise, onMessage, downlink, discarded>>

\* 30 seconds pass, in which the ping interval of every connected client
\* has run once
probeTick ==
    /\ \A u \in 1..Len(readyState) : readyState[u] = "OPEN" => u \in probed
    /\ Tick
    /\ probed' = {}
    /\ UNCHANGED <<promise, onMessage, downlink, discarded>>

(***************************************************************************)
(* Claims about the application on its transport                           *)
(***************************************************************************)
\* C31: whenever the application applies a history message the canvas is
\* empty beforehand, also for the history of a connection made by an
\* automatic reconnect.
C31_HistoryOnEmptyCanvas ==
    [][(appHandled' # appHandled /\ Got("history")') => canvas = <<>>]_clientVars

\* C36: when the first connection attempt has failed and a reconnect has
\* opened a connection, no message of that connection is discarded: each
\* is passed to handleWebSocketMessage.
C36_DeliveredAfterFailedFirstAttempt ==
    promise = "rejected" => discarded = <<>>

\* C34: the cleanup interval never removes a participant whose connection
\* is open and whose client has sent its ping every 30 seconds, the last
\* one since the interval became due.
C34_ProbingClientKept ==
    [][\A u \in Registered(clients) :
          (readyState[u] = "OPEN" /\ u \in probed)
              => u \in Registered(clients')]_serverVars

(***************************************************************************)
(* Specifications                                                          *)
(***************************************************************************)
vars == <<stateVars, serverVars, transportVars, clientVars, sessionVars>>

Init == InitState /\ InitServer /\ InitTransport /\ InitClient /\ InitSession

\* the calls on one DrawingState
StepState ==
    \/ \E id \in OpIds, u \in Users : addOperation(id, u) /\ UNCHANGED <<serverVars, transportVars, clientVars, sessionVars>>
    \/ \E v \in QueryVersions : getOperationsAfter(v) /\ UNCHANGED <<serverVars, transportVars, clientVars, sessionVars>>
    \/ \E u \in Users : undo(u) /\ UNCHANGED <<serverVars, transportVars, clientVars, sessionVars>>
    \/ \E u \in Users : redo(u) /\ UNCHANGED <<serverVars, transportVars, clientVars, sessionVars>>
    \/ getState /\ UNCHANGED <<serverVars, transportVars, clientVars, sessionVars>>

SpecState == Init /\ [][StepState]_vars

\* the events of one server process
StepServer ==
    \/ \E color \in Colors : Connection(color) /\ UNCHANGED <<stateVars, transportVars, clientVars, sessionVars>>
    \/ \E u \in UserIds : SocketClosing(u) /\ UNCHANGED <<stateVars, transportVars, clientVars, sessionVars>>
    \/ \E u \in UserIds : OnClose(u) /\ UNCHANGED <<stateVars, transportVars, clientVars, sessionVars>>
    \/ \E u \in UserIds : OnPong(u) /\ UNCHANGED <<stateVars, transportVars, clientVars, sessionVars>>
    \/ \E u \in UserIds, frame \in Frames :
          handled < MaxRegistryMessages /\ OnMessage(u, frame) /\ UNCHANGED <<stateVars, transportVars, clientVars, sessionVars>>
    \/ Tick /\ UNCHANGED <<stateVars, transportVars, clientVars, sessionVars>>
    \/ Sweep /\ UNCHANGED <<stateVars, transportVars, clientVars, sessionVars>>

SpecServer == Init /\ [][StepServer]_vars

\* the events of the server between two runs of its cleanup interval
StepRouting ==
    \/ \E color \in Colors : Connection(color) /\ UNCHANGED <<stateVars, transportVars, clientVars, sessionVars>>
    \/ \E u \in UserIds : SocketClosing(u) /\ UNCHANGED <<stateVars, transportVars, clientVars, sessionVars>>
    \/ \E u \in UserIds : OnClose(u) /\ UNCHANGED <<stateVars, transportVars, clientVars, sessionVars>>
    \/ \E u \in UserIds, frame \in Frames :
          handled < MaxRegistryMessages /\ OnMessage(u, frame) /\ UNCHANGED <<stateVars, transportVars, clientVars, sessionVars>>

SpecRouting == Init /\ [][StepRouting]_vars

\* the events of the server that build and read the operation log
StepLog ==
    \/ \E color \in Colors :
          Len(readyState) < MaxAuthors /\ Connection(color) /\ UNCHANGED <<stateVars, transportVars, clientVars, sessionVars>>
    \/ \E u \in UserIds : SocketClosing(u) /\ UNCHANGED <<stateVars, transportVars, clientVars, sessionVars>>
    \/ \E u \in UserIds : OnClose(u) /\ UNCHANGED <<stateVars, transportVars, clientVars, sessionVars>>
    \/ \E u \in UserIds, frame \in LogFrames : OnMessage(u, frame) /\ UNCHANGED <<stateVars, transportVars, clientVars, sessionVars>>

SpecLog == Init /\ [][StepLog]_vars

\* new participants joining a server whose log already has entries
InitHistory ==
    InitState /\ InitLogged /\ InitTransport /\ InitClient /\ InitSession

StepHistory ==
    \/ \E color \in Colors : Connection(color) /\ UNCHANGED <<stateVars, transportVars, clientVars, sessionVars>>
    \/ \E u \in UserIds : SocketClosing(u) /\ UNCHANGED <<stateVars, transportVars, clientVars, sessionVars>>
    \/ \E u \in UserIds : OnClose(u) /\ UNCHANGED <<stateVars, transportVars, clientVars, sessionVars>>

SpecHistory == InitHistory /\ [][StepHistory]_vars

\* the events of one transport
StepTransport ==
    \/ Connect /\ UNCHANGED <<stateVars, serverVars, clientVars, sessionVars>>
    \/ \E s \in SocketIds : onopen(s) /\ UNCHANGED <<stateVars, serverVars, clientVars, sessionVars>>
    \/ \E s \in SocketIds : onclose(s) /\ UNCHANGED <<stateVars, serverVars, clientVars, sessionVars>>
    \/ ReconnectTimer /\ UNCHANGED <<stateVars, serverVars, clientVars, sessionVars>>
    \/ \E message \in AppMessages : Send(message) /\ UNCHANGED <<stateVars, serverVars, clientVars, sessionVars>>
    \/ PingInterval /\ UNCHANGED <<stateVars, serverVars, clientVars, sessionVars>>
    \/ Disconnect /\ UNCHANGED <<stateVars, serverVars, clientVars, sessionVars>>

SpecTransport == Init /\ [][StepTransport]_vars

\* the messages one application handles
StepClient ==
    \E message \in ServerMessages :
        handleWebSocketMessage(message) /\ UNCHANGED <<stateVars, serverVars, transportVars, sessionVars>>

SpecClient == Init /\ [][StepClient]_vars

\* the events of the user one application handles
StepLocal ==
    \/ startDrawing(Origin) /\ UNCHANGED <<stateVars, serverVars, transportVars, sessionVars>>
    \/ draw([x |-> 5, y |-> 7]) /\ UNCHANGED <<stateVars, serverVars, transportVars, sessionVars>>
    \/ stopDrawing /\ UNCHANGED <<stateVars, serverVars, transportVars, sessionVars>>
    \/ clearCanvas /\ UNCHANGED <<stateVars, serverVars, transportVars, sessionVars>>
    \/ Undo /\ UNCHANGED <<stateVars, serverVars, transportVars, sessionVars>>
    \/ Redo /\ UNCHANGED <<stateVars, serverVars, transportVars, sessionVars>>

SpecLocal == Init /\ [][StepLocal]_vars

\* the calls and events that add operations and take them back, on the
\* server's DrawingState and in one application
StepRedo ==
    \/ \E id \in OpIds, u \in Users :
          version < MaxRedoAdds /\ addOperation(id, u) /\ UNCHANGED <<serverVars, transportVars, clientVars, sessionVars>>
    \/ \E u \in Users : undo(u) /\ UNCHANGED <<serverVars, transportVars, clientVars, sessionVars>>
    \/ startDrawing(Origin) /\ UNCHANGED <<stateVars, serverVars, transportVars, sessionVars>>
    \/ draw([x |-> 5, y |-> 7]) /\ UNCHANGED <<stateVars, serverVars, transportVars, sessionVars>>
    \/ stopDrawing /\ UNCHANGED <<stateVars, serverVars, transportVars, sessionVars>>
    \/ Undo /\ UNCHANGED <<stateVars, serverVars, transportVars, sessionVars>>
    \/ Redo /\ UNCHANGED <<stateVars, serverVars, transportVars, sessionVars>>

SpecRedo == Init /\ [][StepRedo]_vars

\* one application from init() on: its connections and their messages
StepSession ==
    \/ init /\ UNCHANGED <<stateVars, serverVars, clientVars>>
    \/ \E s \in SocketIds : sessionOpen(s) /\ UNCHANGED <<stateVars, serverVars, clientVars>>
    \/ \E s \in SocketIds : onerror(s) /\ UNCHANGED <<stateVars, serverVars, clientVars>>
    \/ \E s \in SocketIds : sessionClose(s) /\ UNCHANGED <<stateVars, serverVars, clientVars>>
    \/ sessionReconnect /\ UNCHANGED <<stateVars, serverVars, clientVars>>
    \/ \E s \in SocketIds, message \in ServerMessages :
          onmessage(s, message) /\ UNCHANGED <<stateVars, serverVars>>

SpecSession == Init /\ [][StepSession]_vars

\* the server with clients that stay connected and send their pings
StepProbe ==
    \/ \E color \in Colors : probeConnection(color) /\ UNCHANGED <<stateVars, transportVars, clientVars>>
    \/ \E u \in UserIds : probePing(u) /\ UNCHANGED <<stateVars, transportVars, clientVars>>
    \/ probeTick /\ UNCHANGED <<stateVars, transportVars, clientVars>>
    \/ Sweep /\ UNCHANGED <<stateVars, transportVars, clientVars, sessionVars>>

SpecProbe == Init /\ [][StepProbe]_vars

====
